---- MODULE Spec2Model ----
(***************************************************************************)
(* TagService (src/tag.ts): the owned collection (tagModel) and the shared *)
(* collection (tagSharedModel) of a document store, and the static methods *)
(* of TagService that insert, read, update and delete their documents.     *)
(* Every method runs one storage call (addTagsFromJson: one per record of  *)
(* the batch), so a request is one atomic step on the store; concurrent    *)
(* requests are requests that reach the store in either order.             *)
(***************************************************************************)
EXTENDS Integers, FiniteSets, Sequences, TLC

VARIABLES
    tags,        \* tagModel: _id -> document
    tagsShared,  \* tagSharedModel: _id -> document
    nextId,      \* how many ObjectIds the store has generated, plus one
    imp,         \* addTagsFromJson: "idle", or "loop" while it walks a batch
    calls,       \* a round of concurrent requests: in flight, or answered
    last,        \* the last completed call: method, arguments, result
    removed      \* history: ids that deleteHardTag / deleteHardTags removed

vars == <<tags, tagsShared, nextId, imp, calls, last, removed>>

----------------------------------------------------------------------------
(* Bounds and input sets *)

MaxTs == 3
MaxBatch == 3

\* An absent (null / undefined) field of a document.
Null == -1

\* The ObjectIds the store generates for inserts that give no _id, in the
\* order it generates them; each is generated once.
ObjectIds == <<"t1", "t2">>
Ids == {ObjectIds[n] : n \in DOMAIN ObjectIds}
Timestamps == 1..MaxTs
Users == {"u1", "u2"}
DeviceIds == {"d1"}
LocalIds == {"l1"}
Devices == {"dev1", "dev2"}
RaceUsers == {"u1"}
BackupDevices == {"dev1"}

\* Client timestamps passed as createTs and deleteTs, and the readings of
\* Date.now().
CreateTss == {MaxTs - 1}
DeleteTss == {1}
Nows == {MaxTs - 1}

\* The values a caller passes for (tag, encKey, encConfig, schemaVersion).
Details ==
    { [tag |-> "a", encKey |-> "k1", encConfig |-> "c1", schemaVersion |-> 1],
      [tag |-> "b", encKey |-> "k2", encConfig |-> "c2", schemaVersion |-> 2] }

\* The payload of the records in a batch of addTagsFromJson.
JsonDetails ==
    { [tag |-> "a", encKey |-> "k1", encConfig |-> "c1", schemaVersion |-> 1] }

\* The updates a caller passes to the generic updateTag / updateTagShared:
\* a change of details, a tombstone write, and a write of deleted: false.
Updates ==
    { [tag |-> "b", encKey |-> "k2", encConfig |-> "c2", schemaVersion |-> 2],
      [deleted |-> TRUE, tag |-> "", encKey |-> "", encConfig |-> "",
       deleteTs |-> 1],
      [deleted |-> FALSE] }

----------------------------------------------------------------------------
(* The document store *)

\* Schema defaults of the Tags model: a field the insert does not give is
\* absent, except deleted, which defaults to false.
SchemaDefaults ==
    [dId |-> "", lId |-> "", userId |-> "", tag |-> "", deleted |-> FALSE,
     encKey |-> "", encConfig |-> "", createTs |-> Null, updateTs |-> Null,
     deleteTs |-> Null, schemaVersion |-> Null]

\* Model.create: the document as stored, the fields given over the defaults.
NewDoc(fields) ==
    [f \in DOMAIN SchemaDefaults |->
        IF f \in DOMAIN fields THEN fields[f] ELSE SchemaDefaults[f]]

\* Model.create: the collection after the insert of doc under _id id.
Insert(coll, id, doc) ==
    [i \in DOMAIN coll \cup {id} |-> IF i = id THEN doc ELSE coll[i]]

\* Model.updateOne's write: the fields of set over the matched document.
SetFields(doc, set) ==
    [f \in DOMAIN doc |-> IF f \in DOMAIN set THEN set[f] ELSE doc[f]]

\* { ...updates } alone: the write forgets updateTs.
SpreadNoTs(updates, updateTs) == updates

\* { ...updates, updateTs: updateTs }: the later key wins.
Spread(updates, updateTs) ==
    [f \in DOMAIN updates \cup {"updateTs"} |->
        IF f = "updateTs" THEN updateTs ELSE updates[f]]

\* Model.deleteOne / deleteMany: the collection without the documents in ids.
Remove(coll, ids) == [i \in DOMAIN coll \ ids |-> coll[i]]

\* A collection with no documents.
EmptyColl == [i \in {} |-> Null]

\* $gt for $lt: the comparison turned round.
Gt(stored, ts) == stored # Null /\ stored > ts

\* $lt on a number field: an absent field matches no comparison.
Lt(stored, ts) == stored # Null /\ stored < ts

----------------------------------------------------------------------------
(* TagService: the methods as functions of the stored collection *)

\* addTag passing updateTs: createTs to tagModel.create as well.
addTagWithUpdateTs(dId, lId, userId, tag, encKey, encConfig, createTs, schemaVersion) ==
    NewDoc([dId |-> dId, lId |-> lId, userId |-> userId, tag |-> tag,
            encKey |-> encKey, encConfig |-> encConfig,
            createTs |-> createTs, updateTs |-> createTs,
            schemaVersion |-> schemaVersion])

\* addTag: the fields it passes to tagModel.create (no _id, no updateTs).
addTag(dId, lId, userId, tag, encKey, encConfig, createTs, schemaVersion) ==
    NewDoc([dId |-> dId, lId |-> lId, userId |-> userId, tag |-> tag,
            encKey |-> encKey, encConfig |-> encConfig,
            createTs |-> createTs, schemaVersion |-> schemaVersion])

\* addTagsFromJson: the fields it passes to tagModel.create for one record
\* of the batch; updateTs is Date.now(), not the record's.
addTagsFromJson(tag, now) ==
    NewDoc([dId |-> tag.dId, lId |-> tag.lId, userId |-> tag.userId,
            deleted |-> tag.deleted, tag |-> tag.tag, encKey |-> tag.encKey,
            encConfig |-> tag.encConfig, createTs |-> tag.createTs,
            updateTs |-> now, deleteTs |-> tag.deleteTs,
            schemaVersion |-> tag.schemaVersion])

\* addTagShared: the fields it passes to tagSharedModel.create.
addTagShared(dId, lId, userId, tag, encKey, encConfig, createTs, schemaVersion) ==
    NewDoc([dId |-> dId, lId |-> lId, userId |-> userId, tag |-> tag,
            encKey |-> encKey, encConfig |-> encConfig,
            createTs |-> createTs, schemaVersion |-> schemaVersion])

\* apiFields: the projection of the read paths.
apiFields ==
    {"_id", "dId", "lId", "userId", "tag", "deleted", "encKey", "encConfig",
     "createTs", "updateTs", "deleteTs", "schemaVersion"}

\* apiFieldsSync, apiFieldsSyncShared: the projection of the sync paths, the
\* full record.
apiFieldsSync ==
    {"_id", "dId", "lId", "userId", "tag", "deleted", "encKey", "encConfig",
     "createTs", "updateTs", "deleteTs", "schemaVersion"}

\* Model.find: the documents of ids, each with its _id, cut to fields.
find(coll, ids, fields) ==
    {[f \in fields |-> IF f = "_id" THEN i ELSE coll[i][f]] : i \in ids}

\* getAllCurrentTags without deleted: false in its filter.
getAllCurrentTagsAnyState(userId) ==
    find(tags, {i \in DOMAIN tags : tags[i].userId = userId}, apiFields)

\* getAllCurrentTags: the live documents of the user.
getAllCurrentTags(userId) ==
    find(tags,
         {i \in DOMAIN tags : tags[i].userId = userId /\ tags[i].deleted = FALSE},
         apiFields)

\* Every field of a stored document: what find returns without a projection.
allFields ==
    {"_id", "dId", "lId", "userId", "deleted", "tag", "encKey", "encConfig",
     "createTs", "updateTs", "deleteTs", "schemaVersion"}

\* getAllTagsForBackup without deleted: false: tombstones in the backup.
getAllTagsForBackupAnyState(userId) ==
    find(tags, {i \in DOMAIN tags : tags[i].userId = userId}, allFields)

\* getAllTagsForBackup: the same filter, no projection.
getAllTagsForBackup(userId) ==
    find(tags,
         {i \in DOMAIN tags : tags[i].userId = userId /\ tags[i].deleted = FALSE},
         allFields)

\* getAllTagsSync: every document of the user, tombstones included.
getAllTagsSync(userId) ==
    find(tags, {i \in DOMAIN tags : tags[i].userId = userId}, apiFieldsSync)

\* getTag: the live document of the user under tagId, if any.
getTag(userId, tagId) ==
    find(tags,
         {i \in DOMAIN tags :
            i = tagId /\ tags[i].userId = userId /\ tags[i].deleted = FALSE},
         apiFields)

\* updateTag's filter with $lte for $lt: a tie passes the gate.
updateTagFilterLte(coll, userId, tagId, updateTs) ==
    {i \in DOMAIN coll :
        /\ i = tagId
        /\ coll[i].userId = userId
        /\ coll[i].deleted = FALSE
        /\ (coll[i].updateTs = Null \/ coll[i].updateTs <= updateTs)}

\* updateTag's filter with $gt for $lt: the gate lets the older write in.
updateTagFilterGt(coll, userId, tagId, updateTs) ==
    {i \in DOMAIN coll :
        /\ i = tagId
        /\ coll[i].userId = userId
        /\ coll[i].deleted = FALSE
        /\ (coll[i].updateTs = Null \/ coll[i].updateTs > updateTs)}

\* updateTag's filter without the $or on updateTs: no gate.
updateTagFilterNoGate(coll, userId, tagId, updateTs) ==
    {i \in DOMAIN coll :
        i = tagId /\ coll[i].userId = userId /\ coll[i].deleted = FALSE}

\* updateTag's filter without deleted: false: tombstones match too.
updateTagFilterAnyState(coll, userId, tagId, updateTs) ==
    {i \in DOMAIN coll :
        /\ i = tagId
        /\ coll[i].userId = userId
        /\ (Lt(coll[i].updateTs, updateTs) \/ coll[i].updateTs = Null)}

\* updateTag's filter: the document, live and owned, whose updateTs is
\* absent or below the candidate.
updateTagFilter(coll, userId, tagId, updateTs) ==
    {i \in DOMAIN coll :
        /\ i = tagId
        /\ coll[i].userId = userId
        /\ coll[i].deleted = FALSE
        /\ (Lt(coll[i].updateTs, updateTs) \/ coll[i].updateTs = Null)}

\* updateOne: the first matched document gets the fields of set;
\* modifiedCount counts it when the write changed it.
updateOne(coll, matched, set) ==
    IF matched = {}
    THEN [coll |-> coll, modifiedCount |-> 0]
    ELSE LET i == CHOOSE j \in matched : TRUE
             doc == SetFields(coll[i], set)
         IN [coll |-> [coll EXCEPT ![i] = doc],
             modifiedCount |-> IF doc = coll[i] THEN 0 ELSE 1]

\* updateTag: tagModel.updateOne under the filter; true when a document
\* was modified.
updateTag(userId, tagId, updates, updateTs) ==
    LET result == updateOne(tags, updateTagFilter(tags, userId, tagId, updateTs),
                            Spread(updates, updateTs))
    IN [coll |-> result.coll, ret |-> result.modifiedCount > 0]

\* updateTagDetails: updateTag with the four detail fields as the updates.
updateTagDetails(userId, tagId, tag, encKey, encConfig, updateTs, schemaVersion) ==
    updateTag(userId, tagId,
              [tag |-> tag, encKey |-> encKey, encConfig |-> encConfig,
               schemaVersion |-> schemaVersion],
              updateTs)

\* deleteSoftTag's filter without deleted: false.
deleteSoftTagFilterAnyState(coll, userId, tagId) ==
    {i \in DOMAIN coll : i = tagId /\ coll[i].userId = userId}

\* deleteSoftTag's filter: the document, live and owned; no timestamp.
deleteSoftTagFilter(coll, userId, tagId) ==
    {i \in DOMAIN coll :
        i = tagId /\ coll[i].userId = userId /\ coll[i].deleted = FALSE}

\* deleteSoftTag writing updateTs: deleteTs and schemaVersion as well.
deleteSoftTagTouching(userId, tagId, deleteTs) ==
    LET result == updateOne(tags, deleteSoftTagFilter(tags, userId, tagId),
                            [tag |-> "", deleted |-> TRUE, encKey |-> "",
                             encConfig |-> "", deleteTs |-> deleteTs,
                             updateTs |-> deleteTs, schemaVersion |-> Null])
    IN [coll |-> result.coll, ret |-> result.modifiedCount > 0]

\* deleteSoftTag under updateTag's filter: the delete gated by its deleteTs.
deleteSoftTagGated(userId, tagId, deleteTs) ==
    LET result == updateOne(tags, updateTagFilter(tags, userId, tagId, deleteTs),
                            [tag |-> "", deleted |-> TRUE, encKey |-> "",
                             encConfig |-> "", deleteTs |-> deleteTs])
    IN [coll |-> result.coll, ret |-> result.modifiedCount > 0]

\* deleteSoftTag: the tombstone write.
deleteSoftTag(userId, tagId, deleteTs) ==
    LET result == updateOne(tags, deleteSoftTagFilter(tags, userId, tagId),
                            [tag |-> "", deleted |-> TRUE, encKey |-> "",
                             encConfig |-> "", deleteTs |-> deleteTs])
    IN [coll |-> result.coll, ret |-> result.modifiedCount > 0]

\* deleteHardTag writing a tombstone instead of removing the document.
deleteHardTagAsTombstone(userId, tagId) ==
    LET gone == {i \in DOMAIN tags : i = tagId /\ tags[i].userId = userId}
    IN [coll |-> updateOne(tags, gone,
                           [tag |-> "", deleted |-> TRUE, encKey |-> "",
                            encConfig |-> ""]).coll,
        gone |-> gone, ret |-> gone # {}]

\* deleteHardTag: deleteOne by _id and userId, whatever the deleted flag.
deleteHardTag(userId, tagId) ==
    LET gone == {i \in DOMAIN tags : i = tagId /\ tags[i].userId = userId}
    IN [coll |-> Remove(tags, gone), gone |-> gone, ret |-> gone # {}]

\* deleteHardTags without userId in its filter: deleteMany of everything.
deleteHardTagsOfAnyUser(userId) ==
    LET gone == DOMAIN tags
    IN [coll |-> Remove(tags, gone), gone |-> gone, ret |-> gone # {}]

\* deleteHardTags: deleteMany by userId.
deleteHardTags(userId) ==
    LET gone == {i \in DOMAIN tags : tags[i].userId = userId}
    IN [coll |-> Remove(tags, gone), gone |-> gone, ret |-> gone # {}]

\* updateTagShared's filter: as updateTag's, on the shared collection.
updateTagSharedFilter(coll, userId, tagId, updateTs) ==
    {i \in DOMAIN coll :
        /\ i = tagId
        /\ coll[i].userId = userId
        /\ coll[i].deleted = FALSE
        /\ (Lt(coll[i].updateTs, updateTs) \/ coll[i].updateTs = Null)}

\* updateTagShared: tagSharedModel.updateOne under the filter.
updateTagShared(userId, tagId, updates, updateTs) ==
    LET result == updateOne(tagsShared,
                            updateTagSharedFilter(tagsShared, userId, tagId, updateTs),
                            Spread(updates, updateTs))
    IN [coll |-> result.coll, ret |-> result.modifiedCount > 0]

\* updateTagDetailsShared: updateTagShared with the four detail fields.
updateTagDetailsShared(userId, tagId, tag, encKey, encConfig, updateTs, schemaVersion) ==
    updateTagShared(userId, tagId,
                    [tag |-> tag, encKey |-> encKey, encConfig |-> encConfig,
                     schemaVersion |-> schemaVersion],
                    updateTs)

\* deleteHardTagShared: deleteOne on the shared collection.
deleteHardTagShared(userId, tagId) ==
    LET gone == {i \in DOMAIN tagsShared :
                    i = tagId /\ tagsShared[i].userId = userId}
    IN [coll |-> Remove(tagsShared, gone), gone |-> gone, ret |-> gone # {}]

\* getAllTagsSharedByOthers without deleted: false in its filter.
getAllTagsSharedByOthersAnyState(sharedTagIds) ==
    find(tagsShared, {i \in DOMAIN tagsShared : i \in sharedTagIds}, apiFields)

\* getAllTagsSharedByOthers: the live shared documents among sharedTagIds.
getAllTagsSharedByOthers(sharedTagIds) ==
    find(tagsShared,
         {i \in DOMAIN tagsShared :
            i \in sharedTagIds /\ tagsShared[i].deleted = FALSE},
         apiFields)

\* getAllTagsSharedSync: every shared document among tagIds.
getAllTagsSharedSync(tagIds) ==
    find(tagsShared, {i \in DOMAIN tagsShared : i \in tagIds}, apiFieldsSync)

\* getTagShared: the live shared document of the user under tagId, if any.
getTagShared(userId, tagId) ==
    find(tagsShared,
         {i \in DOMAIN tagsShared :
            /\ i = tagId
            /\ tagsShared[i].userId = userId
            /\ tagsShared[i].deleted = FALSE},
         apiFields)

----------------------------------------------------------------------------
(* The requests: one action per method *)

\* What a completed call leaves for its caller: the method, the user and
\* tag it named, and the value returned (a document counts as true).
Done(op, userId, tagId, ret) ==
    [op |-> op, userId |-> userId, tagId |-> tagId, ret |-> ret, threw |-> FALSE]

\* A call that threw instead of returning.
Threw(op, userId, tagId) ==
    [op |-> op, userId |-> userId, tagId |-> tagId, ret |-> FALSE, threw |-> TRUE]

\* The records a caller may put in the batch of addTagsFromJson, as a backup
\* holds them: under an _id the owned collection holds or held, or one that
\* the shared collection holds, for any user, live or deleted, with the
\* payload as it was backed up.
JsonTags ==
    {[_id |-> i, dId |-> dId, lId |-> lId, userId |-> u, deleted |-> del,
      tag |-> d.tag, encKey |-> d.encKey, encConfig |-> d.encConfig,
      createTs |-> c, deleteTs |-> IF del THEN c ELSE Null,
      schemaVersion |-> d.schemaVersion] :
        i \in DOMAIN tags \cup removed \cup DOMAIN tagsShared, dId \in DeviceIds, lId \in LocalIds,
        u \in Users, del \in BOOLEAN, d \in JsonDetails, c \in CreateTss}

Init ==
    /\ tags = EmptyColl
    /\ tagsShared = EmptyColl
    /\ nextId = 1
    /\ imp = "idle"
    /\ calls = {}
    /\ last = Done("none", "", "", FALSE)
    /\ removed = {}

\* addTag on a store that gives the insert an _id no document holds now,
\* whether or not one held it before.
AddTagFreeId(dId, lId, userId, tag, encKey, encConfig, createTs, schemaVersion) ==
    \E id \in Ids \ DOMAIN tags :
        /\ nextId \in DOMAIN ObjectIds
        /\ tags' = Insert(tags, id,
                          addTag(dId, lId, userId, tag, encKey, encConfig,
                                 createTs, schemaVersion))
        /\ nextId' = nextId + 1
        /\ last' = Done("addTag", userId, id, TRUE)
        /\ UNCHANGED <<tagsShared, imp, calls, removed>>

AddTag(dId, lId, userId, tag, encKey, encConfig, createTs, schemaVersion) ==
    /\ nextId \in DOMAIN ObjectIds
    /\ tags' = Insert(tags, ObjectIds[nextId],
                      addTag(dId, lId, userId, tag, encKey, encConfig,
                             createTs, schemaVersion))
    /\ nextId' = nextId + 1
    /\ last' = Done("addTag", userId, ObjectIds[nextId], TRUE)
    /\ UNCHANGED <<tagsShared, imp, calls, removed>>

AddTagShared(dId, lId, userId, tag, encKey, encConfig, createTs, schemaVersion) ==
    /\ nextId \in DOMAIN ObjectIds
    /\ tagsShared' = Insert(tagsShared, ObjectIds[nextId],
                            addTagShared(dId, lId, userId, tag, encKey,
                                         encConfig, createTs, schemaVersion))
    /\ nextId' = nextId + 1
    /\ last' = Done("addTagShared", userId, ObjectIds[nextId], TRUE)
    /\ UNCHANGED <<tags, imp, calls, removed>>

\* addTagsFromJson is called: success = true, the loop is entered.
AddTagsFromJsonCall ==
    /\ imp = "idle"
    /\ imp' = "loop"
    /\ UNCHANGED <<tags, tagsShared, nextId, calls, last, removed>>

\* One turn of the loop on the next record of the batch: create throws on
\* a duplicate _id; a falsy document ends the loop with false.
AddTagsFromJsonNext(tag, now, doc) ==
    /\ imp = "loop"
    /\ IF tag._id \in DOMAIN tags
       THEN /\ imp' = "idle"
            /\ last' = Threw("addTagsFromJson", "", "")
            /\ UNCHANGED tags
       ELSE IF ~doc
       THEN /\ imp' = "idle"
            /\ last' = Done("addTagsFromJson", "", "", FALSE)
            /\ UNCHANGED tags
       ELSE /\ tags' = Insert(tags, tag._id, addTagsFromJson(tag, now))
            /\ UNCHANGED <<imp, last>>
    /\ UNCHANGED <<tagsShared, nextId, calls, removed>>

\* The batch is exhausted: return success.
AddTagsFromJsonReturn ==
    /\ imp = "loop"
    /\ imp' = "idle"
    /\ last' = Done("addTagsFromJson", "", "", TRUE)
    /\ UNCHANGED <<tags, tagsShared, nextId, calls, removed>>

\* The loop of addTagsFromJson without its break: after the falsy document
\* of turn falsy (-1 from then on) it walks on and stores the records left.
RECURSIVE addTagsFromJsonNoBreak(_, _, _, _)
addTagsFromJsonNoBreak(coll, json, now, falsy) ==
    IF json = << >>
    THEN [coll |-> coll, ret |-> falsy # -1, threw |-> FALSE]
    ELSE IF Head(json)._id \in DOMAIN coll
    THEN [coll |-> coll, ret |-> FALSE, threw |-> TRUE]
    ELSE IF falsy = 1
    THEN addTagsFromJsonNoBreak(coll, Tail(json), now, -1)
    ELSE addTagsFromJsonNoBreak(
             Insert(coll, Head(json)._id, addTagsFromJson(Head(json), now)),
             Tail(json), now, IF falsy > 0 THEN falsy - 1 ELSE falsy)

\* The loop of addTagsFromJson run to its end on the batch json, from the
\* collection coll: create throws on a duplicate _id; the create of turn
\* falsy (0: of no turn) returns a falsy document, which breaks the loop
\* with success false; the end of the batch returns success true.
RECURSIVE addTagsFromJsonLoop(_, _, _, _)
addTagsFromJsonLoop(coll, json, now, falsy) ==
    IF json = << >>
    THEN [coll |-> coll, ret |-> TRUE, threw |-> FALSE]
    ELSE IF Head(json)._id \in DOMAIN coll
    THEN [coll |-> coll, ret |-> FALSE, threw |-> TRUE]
    ELSE IF falsy = 1
    THEN [coll |-> coll, ret |-> FALSE, threw |-> FALSE]
    ELSE addTagsFromJsonLoop(
             Insert(coll, Head(json)._id, addTagsFromJson(Head(json), now)),
             Tail(json), now, IF falsy > 0 THEN falsy - 1 ELSE falsy)

GetAllCurrentTags(userId) ==
    /\ last' = Done("getAllCurrentTags", "", "", TRUE)
    /\ UNCHANGED <<tags, tagsShared, nextId, imp, calls, removed>>

GetAllTagsForBackup(userId) ==
    /\ last' = Done("getAllTagsForBackup", "", "", TRUE)
    /\ UNCHANGED <<tags, tagsShared, nextId, imp, calls, removed>>

GetAllTagsSync(userId) ==
    /\ last' = Done("getAllTagsSync", "", "", TRUE)
    /\ UNCHANGED <<tags, tagsShared, nextId, imp, calls, removed>>

GetTag(userId, tagId) ==
    /\ last' = Done("getTag", "", "", getTag(userId, tagId) # {})
    /\ UNCHANGED <<tags, tagsShared, nextId, imp, calls, removed>>

GetAllTagsSharedByOthers(sharedTagIds) ==
    /\ last' = Done("getAllTagsSharedByOthers", "", "", TRUE)
    /\ UNCHANGED <<tags, tagsShared, nextId, imp, calls, removed>>

GetAllTagsSharedSync(tagIds) ==
    /\ last' = Done("getAllTagsSharedSync", "", "", TRUE)
    /\ UNCHANGED <<tags, tagsShared, nextId, imp, calls, removed>>

GetTagShared(userId, tagId) ==
    /\ last' = Done("getTagShared", "", "", getTagShared(userId, tagId) # {})
    /\ UNCHANGED <<tags, tagsShared, nextId, imp, calls, removed>>

UpdateTag(userId, tagId, updates, updateTs) ==
    LET result == updateTag(userId, tagId, updates, updateTs)
    IN /\ tags' = result.coll
       /\ last' = Done("updateTag", userId, tagId, result.ret)
       /\ UNCHANGED <<tagsShared, nextId, imp, calls, removed>>

UpdateTagShared(userId, tagId, updates, updateTs) ==
    LET result == updateTagShared(userId, tagId, updates, updateTs)
    IN /\ tagsShared' = result.coll
       /\ last' = Done("updateTagShared", userId, tagId, result.ret)
       /\ UNCHANGED <<tags, nextId, imp, calls, removed>>

UpdateTagDetails(userId, tagId, tag, encKey, encConfig, updateTs, schemaVersion) ==
    LET result == updateTagDetails(userId, tagId, tag, encKey, encConfig,
                                   updateTs, schemaVersion)
    IN /\ tags' = result.coll
       /\ last' = Done("updateTagDetails", userId, tagId, result.ret)
       /\ UNCHANGED <<tagsShared, nextId, imp, calls, removed>>

UpdateTagDetailsShared(userId, tagId, tag, encKey, encConfig, updateTs, schemaVersion) ==
    LET result == updateTagDetailsShared(userId, tagId, tag, encKey, encConfig,
                                         updateTs, schemaVersion)
    IN /\ tagsShared' = result.coll
       /\ last' = Done("updateTagDetailsShared", userId, tagId, result.ret)
       /\ UNCHANGED <<tags, nextId, imp, calls, removed>>

DeleteSoftTag(userId, tagId, deleteTs) ==
    LET result == deleteSoftTag(userId, tagId, deleteTs)
    IN /\ tags' = result.coll
       /\ last' = Done("deleteSoftTag", userId, tagId, result.ret)
       /\ UNCHANGED <<tagsShared, nextId, imp, calls, removed>>

DeleteHardTag(userId, tagId) ==
    LET result == deleteHardTag(userId, tagId)
    IN /\ tags' = result.coll
       /\ last' = Done("deleteHardTag", userId, tagId, result.ret)
       /\ removed' = removed \cup result.gone
       /\ UNCHANGED <<tagsShared, nextId, imp, calls>>

\* deleteHardTagShared removing the document of that _id and user from the
\* owned collection as well.
DeleteHardTagSharedAndOwned(userId, tagId) ==
    LET result == deleteHardTagShared(userId, tagId)
    IN /\ tagsShared' = result.coll
       /\ tags' = deleteHardTag(userId, tagId).coll
       /\ last' = Done("deleteHardTagShared", userId, tagId, result.ret)
       /\ UNCHANGED <<nextId, imp, calls, removed>>

DeleteHardTagShared(userId, tagId) ==
    LET result == deleteHardTagShared(userId, tagId)
    IN /\ tagsShared' = result.coll
       /\ last' = Done("deleteHardTagShared", userId, tagId, result.ret)
       /\ UNCHANGED <<tags, nextId, imp, calls, removed>>

DeleteHardTags(userId) ==
    LET result == deleteHardTags(userId)
    IN /\ tags' = result.coll
       /\ last' = Done("deleteHardTags", userId, "", result.ret)
       /\ removed' = removed \cup result.gone
       /\ UNCHANGED <<tagsShared, nextId, imp, calls>>

----------------------------------------------------------------------------
(* Concurrent requests: a round of updateTagDetails / updateTagDetailsShared *)
(* calls that devices send before any of them reaches the store, and that  *)
(* the store then serves one at a time, in any order.                      *)

\* What the pair (userId, tagId) names in a collection when a call is sent.
Seen(coll, userId, tagId) ==
    IF tagId \in DOMAIN coll /\ coll[tagId].userId = userId
    THEN [live |-> ~coll[tagId].deleted, updateTs |-> coll[tagId].updateTs]
    ELSE [live |-> FALSE, updateTs |-> Null]

\* What a deleteSoftTag call carries for d: it passes no details.
NoDetails == [tag |-> "", encKey |-> "", encConfig |-> "", schemaVersion |-> Null]

\* A device sends a call (updateTs is the call's timestamp argument: the
\* updateTs of an update, the deleteTs of a deleteSoftTag); no call of the
\* round has reached the store yet.
Send(dev, op, userId, tagId, d, updateTs) ==
    /\ \A c \in calls : c.dev # dev /\ c.ret = "sent"
    /\ calls' = calls \cup
          {[dev |-> dev, op |-> op, userId |-> userId, tagId |-> tagId, d |-> d,
            updateTs |-> updateTs, ret |-> "sent", order |-> 0,
            seen |-> Seen(IF op = "updateTagDetailsShared" THEN tagsShared ELSE tags,
                          userId, tagId)]}
    /\ UNCHANGED <<tags, tagsShared, nextId, imp, last, removed>>

\* A call reaches the store, which runs it and answers the device.
Arrive(c) ==
    LET result ==
            IF c.op = "updateTagDetails"
            THEN updateTagDetails(c.userId, c.tagId, c.d.tag, c.d.encKey,
                                  c.d.encConfig, c.updateTs, c.d.schemaVersion)
            ELSE IF c.op = "deleteSoftTag"
            THEN deleteSoftTag(c.userId, c.tagId, c.updateTs)
            ELSE updateTagDetailsShared(c.userId, c.tagId, c.d.tag, c.d.encKey,
                                        c.d.encConfig, c.updateTs,
                                        c.d.schemaVersion)
        answered == {x \in calls : x.ret # "sent"}
    IN /\ c \in calls
       /\ c.ret = "sent"
       /\ IF c.op = "updateTagDetailsShared"
          THEN tagsShared' = result.coll /\ UNCHANGED tags
          ELSE tags' = result.coll /\ UNCHANGED tagsShared
       /\ calls' = (calls \ {c}) \cup
             {[c EXCEPT !.ret = IF result.ret THEN "true" ELSE "false",
                        !.order = Cardinality(answered) + 1]}
       /\ UNCHANGED <<nextId, imp, last, removed>>

\* The batches a device may pass to addTagsFromJson: the tags of one user,
\* live, as getAllTagsForBackup returns them.
JsonBatches ==
    {json \in UNION {[1..n -> {t \in JsonTags : ~t.deleted}] : n \in 0..MaxBatch} :
        \A j, k \in DOMAIN json : json[j].userId = json[k].userId}

\* The batches that hold the documents of a backup, each once, in any order.
Orderings(docs) ==
    {json \in [1..Cardinality(docs) -> docs] :
        \A j, k \in DOMAIN json : json[j] = json[k] => j = k}

\* A device sends getAllTagsForBackup for a user.
SendBackup(dev, userId) ==
    /\ \A c \in calls : ~(c.dev = dev /\ c.op = "getAllTagsForBackup")
    /\ calls' = calls \cup
          {[dev |-> dev, op |-> "getAllTagsForBackup", userId |-> userId,
            json |-> << >>, ret |-> "sent", docs |-> {}, now |-> Null,
            falsy |-> 0]}
    /\ UNCHANGED <<tags, tagsShared, nextId, imp, last, removed>>

\* The store serves getAllTagsForBackup; the device keeps the documents.
ArriveBackup(c) ==
    /\ c \in calls
    /\ c.op = "getAllTagsForBackup"
    /\ c.ret = "sent"
    /\ calls' = (calls \ {c}) \cup
          {[c EXCEPT !.ret = "true", !.docs = getAllTagsForBackup(c.userId)]}
    /\ UNCHANGED <<tags, tagsShared, nextId, imp, last, removed>>

\* A device sends addTagsFromJson with the batch json.
SendJson(dev, json) ==
    /\ \A c \in calls : ~(c.dev = dev /\ c.op = "addTagsFromJson")
    /\ calls' = calls \cup
          {[dev |-> dev, op |-> "addTagsFromJson", userId |-> "", json |-> json,
            ret |-> "sent", docs |-> {}, now |-> Null, falsy |-> 0]}
    /\ UNCHANGED <<tags, tagsShared, nextId, imp, last, removed>>

\* The store serves addTagsFromJson, the whole loop with no other request
\* in between: Date.now() reads now, the create of turn falsy (0: of no
\* turn) returns a falsy document. The device gets true, false, or the
\* error that create threw.
ArriveJson(c, now, falsy) ==
    LET result == addTagsFromJsonLoop(tags, c.json, now, falsy)
    IN /\ c \in calls
       /\ c.op = "addTagsFromJson"
       /\ c.ret = "sent"
       /\ tags' = result.coll
       /\ calls' = (calls \ {c}) \cup
             {[c EXCEPT !.ret = IF result.threw THEN "threw"
                                ELSE IF result.ret THEN "true" ELSE "false",
                        !.now = now, !.falsy = falsy]}
       /\ UNCHANGED <<tagsShared, nextId, imp, last, removed>>

\* Every call of the round is answered: the devices take their answers.
Collect ==
    /\ calls # {}
    /\ \A c \in calls : c.ret # "sent"
    /\ calls' = {}
    /\ UNCHANGED <<tags, tagsShared, nextId, imp, last, removed>>

----------------------------------------------------------------------------
(* Specifications *)

\* The requests on the owned collection.
Next ==
    \/ \E dId \in DeviceIds, lId \in LocalIds, userId \in Users, d \in Details,
          createTs \in CreateTss :
          AddTag(dId, lId, userId, d.tag, d.encKey, d.encConfig, createTs,
                 d.schemaVersion)
    \/ AddTagsFromJsonCall
    \/ \E tag \in JsonTags, now \in Nows, doc \in BOOLEAN :
          AddTagsFromJsonNext(tag, now, doc)
    \/ AddTagsFromJsonReturn
    \/ \E userId \in Users : GetAllCurrentTags(userId)
    \/ \E userId \in Users : GetAllTagsForBackup(userId)
    \/ \E userId \in Users : GetAllTagsSync(userId)
    \/ \E userId \in Users, tagId \in Ids : GetTag(userId, tagId)
    \/ \E userId \in Users, tagId \in Ids, d \in Details, updateTs \in Timestamps :
          UpdateTagDetails(userId, tagId, d.tag, d.encKey, d.encConfig, updateTs,
                           d.schemaVersion)
    \/ \E userId \in Users, tagId \in Ids, deleteTs \in DeleteTss :
          DeleteSoftTag(userId, tagId, deleteTs)
    \/ \E userId \in Users, tagId \in Ids : DeleteHardTag(userId, tagId)
    \/ \E userId \in Users : DeleteHardTags(userId)

Spec == Init /\ [][Next]_vars

\* The requests on the two collections side by side (no bulk import).
NextShared ==
    \/ \E dId \in DeviceIds, lId \in LocalIds, userId \in Users, d \in Details,
          createTs \in CreateTss :
          AddTag(dId, lId, userId, d.tag, d.encKey, d.encConfig, createTs,
                 d.schemaVersion)
    \/ \E dId \in DeviceIds, lId \in LocalIds, userId \in Users, d \in Details,
          createTs \in CreateTss :
          AddTagShared(dId, lId, userId, d.tag, d.encKey, d.encConfig, createTs,
                       d.schemaVersion)
    \/ \E sharedTagIds \in SUBSET Ids : GetAllTagsSharedByOthers(sharedTagIds)
    \/ \E tagIds \in SUBSET Ids : GetAllTagsSharedSync(tagIds)
    \/ \E userId \in Users, tagId \in Ids : GetTagShared(userId, tagId)
    \/ \E userId \in Users, tagId \in Ids, d \in Details, updateTs \in Timestamps :
          UpdateTagDetails(userId, tagId, d.tag, d.encKey, d.encConfig, updateTs,
                           d.schemaVersion)
    \/ \E userId \in Users, tagId \in Ids, d \in Details, updateTs \in Timestamps :
          UpdateTagDetailsShared(userId, tagId, d.tag, d.encKey, d.encConfig,
                                 updateTs, d.schemaVersion)
    \/ \E userId \in Users, tagId \in Ids, deleteTs \in DeleteTss :
          DeleteSoftTag(userId, tagId, deleteTs)
    \/ \E userId \in Users, tagId \in Ids : DeleteHardTag(userId, tagId)
    \/ \E userId \in Users, tagId \in Ids : DeleteHardTagShared(userId, tagId)

SpecShared == Init /\ [][NextShared]_vars

\* Backups and restores of one device: the device sends
\* addTagsFromJson with a batch, or takes a backup and sends addTagsFromJson
\* with it after a deleteHardTags; documents are created and soft-deleted
\* between the rounds.
NextImport ==
    \/ \E dId \in DeviceIds, lId \in LocalIds, userId \in Users, d \in JsonDetails,
          createTs \in CreateTss :
          /\ calls = {}
          /\ AddTag(dId, lId, userId, d.tag, d.encKey, d.encConfig, createTs,
                    d.schemaVersion)
    \/ \E userId \in Users, tagId \in Ids, deleteTs \in DeleteTss :
          /\ calls = {}
          /\ DeleteSoftTag(userId, tagId, deleteTs)
    \/ \E userId \in Users :
          /\ \A c \in calls : c.op = "getAllTagsForBackup" /\ c.ret # "sent"
          /\ DeleteHardTags(userId)
    \/ \E dev \in BackupDevices, userId \in Users :
          calls = {} /\ SendBackup(dev, userId)
    \/ \E c \in calls : ArriveBackup(c)
    \/ \E dev \in BackupDevices, json \in JsonBatches :
          calls = {} /\ SendJson(dev, json)
    \/ \E b \in calls : \E json \in Orderings(b.docs) :
          b.op = "getAllTagsForBackup" /\ b.ret # "sent" /\ SendJson(b.dev, json)
    \/ \E c \in calls, now \in Nows :
          \E falsy \in 0..Len(c.json) : ArriveJson(c, now, falsy)
    \/ Collect

SpecImport == Init /\ [][NextImport]_vars

\* The two collections with documents under the same _id: shared documents,
\* and owned documents that addTagsFromJson stores under the _id of a shared
\* one, and every request that writes to either collection.
NextTwin ==
    \/ \E dId \in DeviceIds, lId \in LocalIds, userId \in RaceUsers,
          d \in JsonDetails, createTs \in CreateTss :
          AddTagShared(dId, lId, userId, d.tag, d.encKey, d.encConfig, createTs,
                       d.schemaVersion)
    \/ AddTagsFromJsonCall
    \/ \E tag \in JsonTags, now \in Nows, doc \in BOOLEAN :
          AddTagsFromJsonNext(tag, now, doc)
    \/ AddTagsFromJsonReturn
    \/ \E userId \in RaceUsers, tagId \in Ids, d \in Details \ JsonDetails :
          UpdateTagDetails(userId, tagId, d.tag, d.encKey, d.encConfig, MaxTs,
                           d.schemaVersion)
    \/ \E userId \in RaceUsers, tagId \in Ids, d \in Details \ JsonDetails :
          UpdateTagDetailsShared(userId, tagId, d.tag, d.encKey, d.encConfig,
                                 MaxTs, d.schemaVersion)
    \/ \E userId \in RaceUsers, tagId \in Ids, deleteTs \in DeleteTss :
          DeleteSoftTag(userId, tagId, deleteTs)
    \/ \E userId \in RaceUsers, tagId \in Ids : DeleteHardTag(userId, tagId)
    \/ \E userId \in RaceUsers, tagId \in Ids :
          DeleteHardTagShared(userId, tagId)
    \/ \E userId \in RaceUsers : DeleteHardTags(userId)

SpecTwin == Init /\ [][NextTwin]_vars

\* Rounds of concurrent update calls, each sent by the owner of the document
\* it names, on one document of each collection.
NextRace ==
    \/ \E dId \in DeviceIds, lId \in LocalIds, userId \in RaceUsers, d \in Details,
          createTs \in CreateTss :
          /\ calls = {}
          /\ tags = EmptyColl
          /\ AddTag(dId, lId, userId, d.tag, d.encKey, d.encConfig, createTs,
                    d.schemaVersion)
    \/ \E dId \in DeviceIds, lId \in LocalIds, userId \in RaceUsers, d \in Details,
          createTs \in CreateTss :
          /\ calls = {}
          /\ tagsShared = EmptyColl
          /\ AddTagShared(dId, lId, userId, d.tag, d.encKey, d.encConfig,
                          createTs, d.schemaVersion)
    \/ \E dev \in Devices, tagId \in DOMAIN tags, d \in Details,
          updateTs \in Timestamps :
          Send(dev, "updateTagDetails", tags[tagId].userId, tagId, d, updateTs)
    \/ \E dev \in Devices, tagId \in DOMAIN tagsShared, d \in Details,
          updateTs \in Timestamps :
          Send(dev, "updateTagDetailsShared", tagsShared[tagId].userId, tagId, d,
               updateTs)
    \/ \E dev \in Devices, tagId \in DOMAIN tags, deleteTs \in DeleteTss :
          Send(dev, "deleteSoftTag", tags[tagId].userId, tagId, NoDetails, deleteTs)
    \/ \E c \in calls : Arrive(c)
    \/ Collect

SpecRace == Init /\ [][NextRace]_vars

----------------------------------------------------------------------------
(* The claims *)

\* The document that an accepted updateTagDetails leaves in place of doc.
Written(doc, d, updateTs) ==
    [doc EXCEPT !.tag = d.tag, !.encKey = d.encKey, !.encConfig = d.encConfig,
                !.schemaVersion = d.schemaVersion, !.updateTs = updateTs]

\* The call's pair (userId, tagId) names a live document of the collection.
LiveOwned(coll, userId, tagId) ==
    tagId \in DOMAIN coll /\ coll[tagId].userId = userId /\ ~coll[tagId].deleted

\* C1: a call of updateTagDetails or updateTagDetailsShared whose updateTs is
\* not above the updateTs stored in the document it names leaves the whole
\* collection as it was and returns false, whoever calls and whatever the
\* document's state.
C1_StaleWriteRejected ==
    [][/\ last'.op = "updateTagDetails" =>
            \A d \in Details, updateTs \in Timestamps :
                ( /\ last'.tagId \in DOMAIN tags
                  /\ tags[last'.tagId].updateTs # Null
                  /\ updateTs <= tags[last'.tagId].updateTs
                  /\ UpdateTagDetails(last'.userId, last'.tagId, d.tag, d.encKey,
                                      d.encConfig, updateTs, d.schemaVersion) )
                => (tags' = tags /\ last'.ret = FALSE)
       /\ last'.op = "updateTagDetailsShared" =>
            \A d \in Details, updateTs \in Timestamps :
                ( /\ last'.tagId \in DOMAIN tagsShared
                  /\ tagsShared[last'.tagId].updateTs # Null
                  /\ updateTs <= tagsShared[last'.tagId].updateTs
                  /\ UpdateTagDetailsShared(last'.userId, last'.tagId, d.tag,
                                            d.encKey, d.encConfig, updateTs,
                                            d.schemaVersion) )
                => (tagsShared' = tagsShared /\ last'.ret = FALSE)]_vars

\* C1 witness: updateTagDetails returned false on a live document of its
\* caller, which only a stale updateTs explains.
C1_Witness ==
    /\ last.op = "updateTagDetails"
    /\ last.ret = FALSE
    /\ LiveOwned(tags, last.userId, last.tagId)
    /\ tags[last.tagId].updateTs # Null

\* C2 as stated: for EVERY document, a call whose updateTs is above the
\* stored one, or whose stored one is absent, writes the fields and returns
\* true.
C2_AsStated ==
    [][last'.op = "updateTagDetails" =>
        \A d \in Details, updateTs \in Timestamps :
            ( /\ last'.tagId \in DOMAIN tags
              /\ (tags[last'.tagId].updateTs = Null
                    \/ tags[last'.tagId].updateTs < updateTs)
              /\ UpdateTagDetails(last'.userId, last'.tagId, d.tag, d.encKey,
                                  d.encConfig, updateTs, d.schemaVersion) )
            => /\ last'.ret = TRUE
               /\ tags' = [tags EXCEPT
                             ![last'.tagId] = Written(tags[last'.tagId], d, updateTs)]]_vars

\* C2, amended: for every LIVE document OWNED BY THE CALLER, a call whose
\* updateTs is above the stored one, or whose stored one is absent, writes
\* the four fields and updateTs in one step, changes nothing else, and
\* returns true.
C2_FreshWriteAccepted ==
    [][last'.op = "updateTagDetails" =>
        \A d \in Details, updateTs \in Timestamps :
            ( /\ LiveOwned(tags, last'.userId, last'.tagId)
              /\ (tags[last'.tagId].updateTs = Null
                    \/ tags[last'.tagId].updateTs < updateTs)
              /\ UpdateTagDetails(last'.userId, last'.tagId, d.tag, d.encKey,
                                  d.encConfig, updateTs, d.schemaVersion) )
            => /\ last'.ret = TRUE
               /\ tags' = [tags EXCEPT
                             ![last'.tagId] = Written(tags[last'.tagId], d, updateTs)]]_vars

\* C2 witness: updateTagDetails returned true and the document carries a
\* payload of the caller's with an updateTs.
C2_Witness ==
    /\ last.op = "updateTagDetails"
    /\ last.ret = TRUE
    /\ LiveOwned(tags, last.userId, last.tagId)
    /\ tags[last.tagId].updateTs = MaxTs
    /\ tags[last.tagId].tag = "b"

\* The collection that a call of a round is served on.
CollOf(c) == IF c.op = "updateTagDetailsShared" THEN tagsShared ELSE tags

\* The pairs <<lo, hi>> of calls of one round that race on one live document
\* of their caller with timestamps lo.updateTs < hi.updateTs, both above the
\* updateTs the document had when they were sent (or the document had none).
RacePairs ==
    {p \in calls \X calls :
        /\ p[1].dev # p[2].dev
        /\ p[1].op = p[2].op
        /\ p[1].userId = p[2].userId
        /\ p[1].tagId = p[2].tagId
        /\ p[1].seen.live
        /\ p[1].updateTs < p[2].updateTs
        /\ (p[1].seen.updateTs = Null \/ p[1].seen.updateTs < p[1].updateTs)}

\* The document carries the payload and the timestamp of the call c.
Carries(doc, c) ==
    /\ doc.updateTs = c.updateTs
    /\ doc.tag = c.d.tag
    /\ doc.encKey = c.d.encKey
    /\ doc.encConfig = c.d.encConfig
    /\ doc.schemaVersion = c.d.schemaVersion

\* C3: when two updateTagDetails (or two updateTagDetailsShared) calls with
\* timestamps T1 < T2, both above the stored updateTs, race on one live
\* document and both have been served, in either order, the document
\* carries updateTs = T2 and the tag, encKey, encConfig and schemaVersion
\* passed with T2.
C3_HigherTimestampWins ==
    \A p \in RacePairs :
        (p[1].ret # "sent" /\ p[2].ret # "sent")
            => Carries(CollOf(p[2])[p[2].tagId], p[2])

\* C3 witness: the call with the higher timestamp was served first, the one
\* with the lower timestamp after it, and they passed different payloads.
C3_Witness ==
    \E p \in RacePairs :
        /\ p[2].order = 1
        /\ p[1].order = 2
        /\ p[1].d # p[2].d
        /\ p[1].op = "updateTagDetails"

\* C4 as stated: of two racing calls only the one with the higher timestamp
\* is ever committed: the higher one returns true, the lower one returns
\* false and the document never carries the lower timestamp, in every
\* arrival order.
C4_AsStated ==
    \A p \in RacePairs :
        /\ p[2].ret # "sent" => p[2].ret = "true"
        /\ p[1].ret # "sent" =>
              /\ p[1].ret = "false"
              /\ CollOf(p[1])[p[1].tagId].updateTs # p[1].updateTs

\* C4, amended: the call with the higher timestamp is always committed and
\* returns true. The call with the lower timestamp returns false, the
\* document untouched, exactly when it is served AFTER the higher one; served
\* first, it is committed and returns true, the document carries its
\* timestamp and payload until the higher call is served and overwrites
\* them.
C4_LoserRejectedOnlyIfLate ==
    \A p \in RacePairs :
        LET lo == p[1]
            hi == p[2]
            doc == CollOf(lo)[lo.tagId]
        IN /\ hi.ret # "sent" => (hi.ret = "true" /\ Carries(doc, hi))
           /\ lo.ret # "sent" =>
                 (lo.ret = "false" <=> (hi.ret # "sent" /\ hi.order < lo.order))
           /\ (lo.ret = "true" /\ hi.ret = "sent") => Carries(doc, lo)

\* C4 witness: the call with the lower timestamp was served first and
\* returned true, and the higher one returned true after it.
C4_Witness ==
    \E p \in RacePairs :
        /\ p[1].order = 1
        /\ p[1].ret = "true"
        /\ p[2].order = 2
        /\ p[2].ret = "true"
        /\ p[1].op = "updateTagDetailsShared"

SoftDeletedView(userId, tagId) ==
    /\ \A t \in getAllCurrentTags(userId) : t._id # tagId
    /\ \E t \in getAllTagsSync(userId) :
          /\ t._id = tagId
          /\ t.deleted = TRUE
          /\ t.tag = ""
          /\ t.encKey = ""
          /\ t.encConfig = ""

\* C6: a deleteSoftTag that returned true leaves its tag out of
\* getAllCurrentTags of its user and in getAllTagsSync of its user with
\* deleted = true and empty tag, encKey and encConfig, and every later step
\* that does not remove the document keeps it so.
C6_TombstoneView ==
    [][/\ (last'.op = "deleteSoftTag" /\ last'.ret = TRUE) =>
            \A userId \in Users, tagId \in Ids, deleteTs \in DeleteTss :
                DeleteSoftTag(userId, tagId, deleteTs)
                => SoftDeletedView(userId, tagId)'
       /\ tags' # tags =>
            \A userId \in Users, tagId \in DOMAIN tags \cap DOMAIN tags' :
                SoftDeletedView(userId, tagId) => SoftDeletedView(userId, tagId)']_vars

\* C6 witness: deleteSoftTag returned true and the two read paths show the
\* tag as soft-deleted.
C6_Witness ==
    /\ last.op = "deleteSoftTag"
    /\ last.ret = TRUE
    /\ SoftDeletedView(last.userId, last.tagId)

\* C7 as stated: in every reachable state every document of the owned
\* collection with deleted = true has empty tag, encKey and encConfig.
C7_AsStated ==
    \A i \in DOMAIN tags :
        tags[i].deleted =>
            (tags[i].tag = "" /\ tags[i].encKey = "" /\ tags[i].encConfig = "")

\* updateTs in document order: an absent one is below every value.
TsLeq(a, b) == a = Null \/ (b # Null /\ a <= b)

\* C8: in every step, for every document that exists before and after it,
\* the stored updateTs does not decrease (absent counts as lowest), and when
\* it changes the step is an updateTagDetails of the document's owner that
\* returned true and passed the new value.
C8_UpdateTsMonotone ==
    [][\A i \in DOMAIN tags \cap DOMAIN tags' :
        /\ TsLeq(tags[i].updateTs, tags'[i].updateTs)
        /\ tags'[i].updateTs # tags[i].updateTs =>
              /\ last'.op = "updateTagDetails"
              /\ last'.ret = TRUE
              /\ \E d \in Details :
                    UpdateTagDetails(tags[i].userId, i, d.tag, d.encKey,
                                     d.encConfig, tags'[i].updateTs,
                                     d.schemaVersion)]_vars

\* C8 witness: an accepted updateTagDetails raised the updateTs of a
\* document to the highest timestamp, and the document was soft-deleted
\* afterwards with that updateTs kept.
C8_Witness ==
    /\ last.op = "deleteSoftTag"
    /\ last.ret = TRUE
    /\ last.tagId \in DOMAIN tags
    /\ tags[last.tagId].updateTs = MaxTs

\* C9: deleteSoftTag on a document that is already deleted returns false and
\* leaves every field of every document as it was, and no step turns the
\* deleted flag of a document that exists before and after it from true to
\* false.
C9_SoftDeleteOnce ==
    [][/\ last'.op = "deleteSoftTag" =>
            \A deleteTs \in DeleteTss :
                ( /\ last'.tagId \in DOMAIN tags
                  /\ tags[last'.tagId].deleted
                  /\ DeleteSoftTag(last'.userId, last'.tagId, deleteTs) )
                => (last'.ret = FALSE /\ tags' = tags)
       /\ \A i \in DOMAIN tags \cap DOMAIN tags' :
            tags[i].deleted => tags'[i].deleted]_vars

\* C9 witness: deleteSoftTag, called by the owner on a deleted document,
\* returned false.
C9_Witness ==
    /\ last.op = "deleteSoftTag"
    /\ last.ret = FALSE
    /\ last.tagId \in DOMAIN tags
    /\ tags[last.tagId].userId = last.userId
    /\ tags[last.tagId].deleted

\* C10 as stated: an id that deleteHardTag or deleteHardTags removed from the
\* owned collection never names a document of the collection again.
C10_AsStated == removed \cap DOMAIN tags = {}

\* C10, amended: addTag never stores a document under an id that names or
\* named a document, and the only step that makes a removed id name a
\* document again is a turn of addTagsFromJson on a record that carries that
\* id as its _id; addTag, updateTagDetails and deleteSoftTag never do.
C10_OnlyImportRestoresId ==
    [][/\ last'.op = "addTag" /\ last' # last =>
            last'.tagId \notin DOMAIN tags \cup removed
       /\ \A i \in removed :
            (i \notin DOMAIN tags /\ i \in DOMAIN tags') =>
                \E tag \in JsonTags, now \in Nows :
                    tag._id = i /\ AddTagsFromJsonNext(tag, now, TRUE)]_vars

\* C10 witness: addTagsFromJson stored a document under a removed id again,
\* and an addTag after it stored its document under an id never removed.
C10_Witness ==
    /\ removed \cap DOMAIN tags # {}
    /\ last.op = "addTag"
    /\ last.tagId \notin removed

\* The document is a tombstone with no payload.
EmptyTombstone(doc) ==
    doc.deleted = TRUE /\ doc.tag = "" /\ doc.encKey = "" /\ doc.encConfig = ""

\* C11: a deleteSoftTag that its caller sent for a live document of theirs,
\* and that is the first deleteSoftTag of its round to be served, returns
\* true whatever its deleteTs (at or below the stored updateTs included) and
\* leaves the document deleted, with empty tag, encKey and encConfig and its
\* deleteTs; when it races with an updateTagDetails on the document, the
\* document is such a tombstone once both are served, in either order.
C11_SoftDeleteUngated ==
    \A c \in calls :
        ( /\ c.op = "deleteSoftTag"
          /\ c.seen.live
          /\ c.ret # "sent"
          /\ \A x \in calls :
                (x.op = "deleteSoftTag" /\ x.ret # "sent") => x.order >= c.order )
        => /\ c.ret = "true"
           /\ EmptyTombstone(tags[c.tagId])
           /\ tags[c.tagId].deleteTs = c.updateTs

\* C11 witness: an updateTagDetails with a timestamp above the deleteTs of a
\* racing deleteSoftTag was served first and returned true, the deleteSoftTag
\* was served after it and returned true as well.
C11_Witness ==
    \E c \in calls, u \in calls :
        /\ c.op = "deleteSoftTag"
        /\ u.op = "updateTagDetails"
        /\ u.tagId = c.tagId
        /\ u.order = 1
        /\ u.ret = "true"
        /\ u.updateTs > c.updateTs
        /\ c.order = 2
        /\ c.ret = "true"
        /\ EmptyTombstone(tags[c.tagId])

\* No read path of the user returns a document under tagId: not
\* getAllCurrentTags, not getTag, not getAllTagsSync.
Unfetched(userId, tagId) ==
    /\ \A t \in getAllCurrentTags(userId) : t._id # tagId
    /\ getTag(userId, tagId) = {}
    /\ \A t \in getAllTagsSync(userId) : t._id # tagId

Insertable(coll, json, k) ==
    \A j \in 1..k :
        /\ json[j]._id \notin DOMAIN coll
        /\ \A h \in 1..(j - 1) : json[h]._id # json[j]._id

\* The collection with the first k records of the batch stored as
\* addTagsFromJson stores them, and its own documents as they were.
WithRecords(coll, json, k, now) ==
    [i \in DOMAIN coll \cup {json[j]._id : j \in 1..k} |->
        IF i \in DOMAIN coll
        THEN coll[i]
        ELSE addTagsFromJson(json[CHOOSE j \in 1..k : json[j]._id = i], now)]

\* C13: addTagsFromJson on a batch whose inserts do not throw: when the
\* create of record k returns a falsy document the call returns false, the
\* collection holds what it held plus the records 1..k-1 (no rollback) and
\* none of the records k..n; when every create returns a document the call
\* returns true and the collection holds what it held plus every record.
C13_StopsAtFirstFailure ==
    [][\A c \in calls :
        (c.op = "addTagsFromJson" /\ c.ret = "sent") =>
            \A a \in calls' :
                (a.dev = c.dev /\ a.op = c.op /\ a.ret # "sent") =>
                    /\ (a.falsy = 0 /\ Insertable(tags, c.json, Len(c.json)))
                          => /\ a.ret = "true"
                             /\ tags' = WithRecords(tags, c.json, Len(c.json), a.now)
                    /\ (a.falsy > 0 /\ Insertable(tags, c.json, a.falsy))
                          => /\ a.ret = "false"
                             /\ tags' = WithRecords(tags, c.json, a.falsy - 1,
                                                    a.now)]_vars

\* C13 witness: of a batch of three records the first is stored, the create
\* of the second returned a falsy document, the call returned false and the
\* third record is not stored.
C13_Witness ==
    \E c \in calls :
        /\ c.op = "addTagsFromJson"
        /\ c.ret = "false"
        /\ Len(c.json) = 3
        /\ c.falsy = 2
        /\ c.json[1]._id \in DOMAIN tags
        /\ tags[c.json[1]._id] = addTagsFromJson(c.json[1], c.now)
        /\ c.json[3]._id \notin DOMAIN tags

\* The methods that name the owned collection, and those that name the
\* shared one.
OwnedOps ==
    {"addTag", "addTagsFromJson", "updateTagDetails", "deleteSoftTag",
     "deleteHardTag", "deleteHardTags"}
SharedOps == {"addTagShared", "updateTagDetailsShared", "deleteHardTagShared"}

\* C14: a step that completes addTagShared, updateTagDetailsShared or
\* deleteHardTagShared leaves every document of the owned collection as it
\* was, a step of a method on the owned collection leaves every document of
\* the shared collection as it was, and no step changes both; also when the
\* collections hold documents of one user under one _id.
C14_CollectionsIndependent ==
    [][/\ tagsShared' # tagsShared =>
            (tags' = tags /\ last'.op \in SharedOps)
       /\ tags' # tags =>
            /\ tagsShared' = tagsShared
            /\ last'.op \in OwnedOps \/ (imp = "loop" /\ last' = last)
       /\ (last'.op \in SharedOps /\ last' # last) => tags' = tags
       /\ (last'.op \in OwnedOps /\ last' # last) => tagsShared' = tagsShared]_vars

\* C14 witness: the two collections hold a live document of one user under
\* one _id, updateTagDetailsShared has written the shared one and the owned
\* one still has the payload it was stored with.
C14_Witness ==
    /\ last.op = "updateTagDetailsShared"
    /\ last.ret = TRUE
    /\ last.tagId \in DOMAIN tags
    /\ tags[last.tagId].userId = last.userId
    /\ tags[last.tagId].deleted = FALSE
    /\ tags[last.tagId].tag = "a"
    /\ tagsShared[last.tagId].tag = "b"

\* The generic writers: updateTag and updateTagShared called with any
\* updates, next to the creates, the deletes and the read of shared
\* documents by their ids.
NextUpdates ==
    \/ \E dId \in DeviceIds, lId \in LocalIds, userId \in Users, d \in JsonDetails,
          createTs \in CreateTss :
          AddTag(dId, lId, userId, d.tag, d.encKey, d.encConfig, createTs,
                 d.schemaVersion)
    \/ \E dId \in DeviceIds, lId \in LocalIds, userId \in Users, d \in JsonDetails,
          createTs \in CreateTss :
          AddTagShared(dId, lId, userId, d.tag, d.encKey, d.encConfig, createTs,
                       d.schemaVersion)
    \/ \E userId \in Users, tagId \in Ids, updates \in Updates,
          updateTs \in Timestamps :
          UpdateTag(userId, tagId, updates, updateTs)
    \/ \E userId \in Users, tagId \in Ids, updates \in Updates,
          updateTs \in Timestamps :
          UpdateTagShared(userId, tagId, updates, updateTs)
    \/ \E userId \in Users, tagId \in Ids, deleteTs \in DeleteTss :
          DeleteSoftTag(userId, tagId, deleteTs)
    \/ \E userId \in Users, tagId \in Ids : DeleteHardTag(userId, tagId)
    \/ \E userId \in Users, tagId \in Ids : DeleteHardTagShared(userId, tagId)
    \/ \E userId \in Users : DeleteHardTags(userId)
    \/ \E sharedTagIds \in SUBSET Ids : GetAllTagsSharedByOthers(sharedTagIds)

SpecUpdates == Init /\ [][NextUpdates]_vars

\* Every writer that takes a userId, called by either user on either _id,
\* the updates with the highest updateTs.
NextIsolation ==
    \/ \E dId \in DeviceIds, lId \in LocalIds, userId \in Users, d \in JsonDetails,
          createTs \in CreateTss :
          AddTag(dId, lId, userId, d.tag, d.encKey, d.encConfig, createTs,
                 d.schemaVersion)
    \/ \E dId \in DeviceIds, lId \in LocalIds, userId \in Users, d \in JsonDetails,
          createTs \in CreateTss :
          AddTagShared(dId, lId, userId, d.tag, d.encKey, d.encConfig, createTs,
                       d.schemaVersion)
    \/ \E userId \in Users, tagId \in Ids, updates \in Updates :
          UpdateTag(userId, tagId, updates, MaxTs)
    \/ \E userId \in Users, tagId \in Ids, updates \in Updates :
          UpdateTagShared(userId, tagId, updates, MaxTs)
    \/ \E userId \in Users, tagId \in Ids, d \in Details \ JsonDetails :
          UpdateTagDetails(userId, tagId, d.tag, d.encKey, d.encConfig, MaxTs,
                           d.schemaVersion)
    \/ \E userId \in Users, tagId \in Ids, d \in Details \ JsonDetails :
          UpdateTagDetailsShared(userId, tagId, d.tag, d.encKey, d.encConfig,
                                 MaxTs, d.schemaVersion)
    \/ \E userId \in Users, tagId \in Ids, deleteTs \in DeleteTss :
          DeleteSoftTag(userId, tagId, deleteTs)
    \/ \E userId \in Users, tagId \in Ids : DeleteHardTag(userId, tagId)
    \/ \E userId \in Users, tagId \in Ids : DeleteHardTagShared(userId, tagId)
    \/ \E userId \in Users : DeleteHardTags(userId)

SpecIsolation == Init /\ [][NextIsolation]_vars

\* What the methods of the shared collection can make of the document under
\* tagId when userId calls them: every outcome of updateTagDetailsShared and
\* of updateTagShared, and the outcome of deleteHardTagShared.
SharedOutcomes(userId, tagId) ==
    {updateTagDetailsShared(userId, tagId, d.tag, d.encKey, d.encConfig, ts,
                            d.schemaVersion) : d \in Details, ts \in Timestamps}
    \cup {updateTagShared(userId, tagId, updates, ts) :
            updates \in Updates, ts \in Timestamps}
    \cup {[coll |-> deleteHardTagShared(userId, tagId).coll,
           ret |-> deleteHardTagShared(userId, tagId).ret]}

\* C15 as stated: create, updateDetails, softDelete and hardDelete each have
\* a counterpart on the shared collection with the same result and the same
\* record state: addTagShared stores what addTag stores, and wherever the
\* owned document i and the shared document j are equal, updateTagDetails
\* and updateTagDetailsShared return the same and leave equal documents,
\* deleteHardTag and deleteHardTagShared return the same and both remove
\* theirs, and some method of the shared collection returns what
\* deleteSoftTag returns and leaves the document that deleteSoftTag leaves.
C15_AsStated ==
    /\ \A dId \in DeviceIds, lId \in LocalIds, userId \in Users, d \in Details,
          createTs \in CreateTss :
          addTagShared(dId, lId, userId, d.tag, d.encKey, d.encConfig, createTs,
                       d.schemaVersion)
            = addTag(dId, lId, userId, d.tag, d.encKey, d.encConfig, createTs,
                     d.schemaVersion)
    /\ \A i \in DOMAIN tags, j \in DOMAIN tagsShared :
          tags[i] = tagsShared[j] =>
            \A userId \in Users :
                /\ \A d \in Details, ts \in Timestamps :
                      LET o == updateTagDetails(userId, i, d.tag, d.encKey,
                                                d.encConfig, ts, d.schemaVersion)
                          s == updateTagDetailsShared(userId, j, d.tag, d.encKey,
                                                      d.encConfig, ts,
                                                      d.schemaVersion)
                      IN o.ret = s.ret /\ o.coll[i] = s.coll[j]
                /\ LET o == deleteHardTag(userId, i)
                       s == deleteHardTagShared(userId, j)
                   IN o.ret = s.ret /\ (i \in DOMAIN o.coll <=> j \in DOMAIN s.coll)
                /\ \A deleteTs \in DeleteTss :
                      LET o == deleteSoftTag(userId, i, deleteTs)
                      IN \E s \in SharedOutcomes(userId, j) :
                            /\ s.ret = o.ret
                            /\ j \in DOMAIN s.coll
                            /\ s.coll[j] = o.coll[i]

\* C16: getAllTagsSharedByOthers returns exactly the shared records whose
\* _id is among sharedTagIds and whose deleted is false: every returned
\* record carries an _id of sharedTagIds and the projected fields of the
\* live shared document stored under it, every live shared document of
\* sharedTagIds is returned, once, and a soft-deleted one is not.
C16_ExactlyLiveAmongIds ==
    \A sharedTagIds \in SUBSET Ids :
        LET res == getAllTagsSharedByOthers(sharedTagIds)
            live == {i \in sharedTagIds \cap DOMAIN tagsShared :
                        tagsShared[i].deleted = FALSE}
        IN /\ \A r \in res :
                /\ r._id \in live
                /\ \A f \in apiFields \ {"_id"} : r[f] = tagsShared[r._id][f]
           /\ \A i \in live : \E r \in res : r._id = i
           /\ Cardinality(res) = Cardinality(live)

\* C16 witness: the read has answered while shared documents x (live) and
\* y (soft-deleted) are stored: asked for both it returns x alone, and
\* asked for y alone it does not return x.
C16_Witness ==
    /\ last.op = "getAllTagsSharedByOthers"
    /\ \E x \in DOMAIN tagsShared, y \in DOMAIN tagsShared :
          /\ tagsShared[x].deleted = FALSE
          /\ tagsShared[y].deleted = TRUE
          /\ {r._id : r \in getAllTagsSharedByOthers({x, y})} = {x}
          /\ getAllTagsSharedByOthers({y}) = {}

\* C17: an update never alters a tombstone: when updateTag (or
\* updateTagShared) is called for a document that is soft-deleted, by any
\* user, with any updates and any candidate updateTs, the call returns false
\* and the collection is left as it was, so the document keeps deleted true
\* and the payload it had.
C17_TombstoneUnaltered ==
    [][/\ ( /\ last'.op = "updateTag"
            /\ last'.tagId \in DOMAIN tags
            /\ tags[last'.tagId].deleted = TRUE )
          => /\ last'.ret = FALSE
             /\ tags' = tags
             /\ tags'[last'.tagId].deleted = TRUE
       /\ ( /\ last'.op = "updateTagShared"
            /\ last'.tagId \in DOMAIN tagsShared
            /\ tagsShared[last'.tagId].deleted = TRUE )
          => /\ last'.ret = FALSE
             /\ tagsShared' = tagsShared
             /\ tagsShared'[last'.tagId].deleted = TRUE
      ]_vars

\* C17 witness: updateTag has returned false to the owner of a tombstone
\* with an empty payload whose updateTs is absent, so every candidate
\* updateTs is past the gate and the call was turned away by deleted alone.
C17_Witness ==
    /\ last.op = "updateTag"
    /\ last.ret = FALSE
    /\ last.tagId \in DOMAIN tags
    /\ tags[last.tagId].userId = last.userId
    /\ tags[last.tagId].deleted = TRUE
    /\ tags[last.tagId].updateTs = Null
    /\ tags[last.tagId].tag = ""

\* The fields of a document that deleteSoftTag does not write.
KeptBySoftDelete ==
    {"userId", "dId", "lId", "createTs", "updateTs", "schemaVersion"}

\* C18: deleteSoftTag changes only deleted, tag, encKey, encConfig and
\* deleteTs of the document it matched: that document stays under its _id
\* with its userId, dId, lId, createTs, updateTs and schemaVersion, every
\* other document of the owned collection and the shared collection are
\* unchanged, and a call that matched nothing changes nothing.
C18_SoftDeleteFrame ==
    [][last'.op = "deleteSoftTag" =>
         \A deleteTs \in DeleteTss :
             DeleteSoftTag(last'.userId, last'.tagId, deleteTs) =>
                 /\ DOMAIN tags' = DOMAIN tags
                 /\ tagsShared' = tagsShared
                 /\ \A i \in DOMAIN tags :
                       IF i = last'.tagId /\ last'.ret = TRUE
                       THEN \A f \in KeptBySoftDelete : tags'[i][f] = tags[i][f]
                       ELSE tags'[i] = tags[i]
      ]_vars

\* C18 witness: deleteSoftTag returned true for a document that carries an
\* updateTs and a schemaVersion, at a deleteTs other than that updateTs,
\* next to another document of the collection.
C18_Witness ==
    /\ last.op = "deleteSoftTag"
    /\ last.ret = TRUE
    /\ last.tagId \in DOMAIN tags
    /\ EmptyTombstone(tags[last.tagId])
    /\ tags[last.tagId].updateTs # Null
    /\ tags[last.tagId].updateTs # tags[last.tagId].deleteTs
    /\ tags[last.tagId].schemaVersion # Null
    /\ \E i \in DOMAIN tags : i # last.tagId

\* The methods that take a userId and the _id of an owned document, and
\* those that take a userId and the _id of a shared document.
OwnedByIdOps == {"updateTag", "updateTagDetails", "deleteSoftTag", "deleteHardTag"}
SharedByIdOps == {"updateTagShared", "updateTagDetailsShared", "deleteHardTagShared"}

\* A step of a method called with an _id that names a document of another
\* user, or no document, of the method's collection: the call returns
\* false, throws nothing and changes no document.
ForeignOrMissingIdRejected ==
    /\ ( /\ last'.op \in OwnedByIdOps
         /\ \/ last'.tagId \notin DOMAIN tags
            \/ tags[last'.tagId].userId # last'.userId )
       => (last'.ret = FALSE /\ last'.threw = FALSE
           /\ tags' = tags /\ tagsShared' = tagsShared)
    /\ ( /\ last'.op \in SharedByIdOps
         /\ \/ last'.tagId \notin DOMAIN tagsShared
            \/ tagsShared[last'.tagId].userId # last'.userId )
       => (last'.ret = FALSE /\ last'.threw = FALSE
           /\ tags' = tags /\ tagsShared' = tagsShared)

\* C19 as stated: a call made with userId = v on the record of another user
\* u, or on an identifier that does not exist, returns false and changes
\* nothing, and so does deleteHardTags(v) while a record of another user
\* exists: it returns false and leaves that record unchanged and present.
C19_AsStated ==
    [][/\ ForeignOrMissingIdRejected
       /\ last'.op = "deleteHardTags" =>
            \A i \in DOMAIN tags :
                tags[i].userId # last'.userId =>
                    /\ last'.ret = FALSE
                    /\ i \in DOMAIN tags'
                    /\ tags'[i] = tags[i]
      ]_vars

\* C19, amended: a call made with userId = v and the _id of a record of
\* another user u, or an _id that names no record, returns false, throws
\* nothing and changes no record; deleteHardTags(v) leaves every record of
\* every other user unchanged and present and the shared collection
\* untouched, and returns true exactly when v had records of their own.
C19_OwnershipIsolation ==
    [][/\ ForeignOrMissingIdRejected
       /\ last'.op = "deleteHardTags" =>
            /\ \A i \in DOMAIN tags :
                  tags[i].userId # last'.userId =>
                      (i \in DOMAIN tags' /\ tags'[i] = tags[i])
            /\ \A i \in DOMAIN tags' : i \in DOMAIN tags
            /\ tagsShared' = tagsShared
            /\ last'.threw = FALSE
            /\ last'.ret = (\E i \in DOMAIN tags : tags[i].userId = last'.userId)
      ]_vars

\* C19 witness: deleteHardTags(v) has removed the record of v and returned
\* true while the record of another user is present.
C19_Witness ==
    /\ last.op = "deleteHardTags"
    /\ last.ret = TRUE
    /\ removed # {}
    /\ \A i \in DOMAIN tags : tags[i].userId # last.userId
    /\ \E i \in DOMAIN tags : tags[i].deleted = FALSE

\* The fields of a record that a backup and restore carries over.
RestoredFields ==
    {"userId", "dId", "lId", "tag", "encKey", "encConfig", "createTs",
     "schemaVersion"}

\* The _ids of the documents of a user in the owned collection coll.
IdsOf(coll, userId) == {i \in DOMAIN coll : coll[i].userId = userId}

\* C20: the round trip getAllTagsForBackup(u), deleteHardTags(u),
\* addTagsFromJson(backup). The backup holds exactly the live documents of
\* u with their fields, and no tombstone. When addTagsFromJson is served
\* with the documents of the backup, in any order, while u has no document
\* left and every create returns its document, it returns true and the
\* documents of u are exactly those of the backup: each under its _id, live,
\* with the userId, dId, lId, tag, encKey, encConfig, createTs and
\* schemaVersion it had, and with updateTs the reading of Date.now() at the
\* import, not the updateTs of the backup; the tombstones u had are not
\* restored and the documents of other users are as they were.
C20_BackupRestoreRoundTrip ==
    [][/\ \A b \in calls :
            (b.op = "getAllTagsForBackup" /\ b.ret = "sent") =>
                \A a \in calls' :
                    (a.dev = b.dev /\ a.op = b.op /\ a.ret # "sent") =>
                        /\ {d._id : d \in a.docs}
                             = {i \in IdsOf(tags, b.userId) : tags[i].deleted = FALSE}
                        /\ Cardinality(a.docs)
                             = Cardinality({d._id : d \in a.docs})
                        /\ \A d \in a.docs :
                              \A f \in allFields \ {"_id"} : d[f] = tags[d._id][f]
       /\ \A c \in calls :
            (c.op = "addTagsFromJson" /\ c.ret = "sent") =>
                \A a \in calls', b \in calls :
                    ( /\ a.dev = c.dev /\ a.op = c.op /\ a.ret # "sent"
                      /\ b.op = "getAllTagsForBackup" /\ b.ret = "true"
                      /\ c.json \in Orderings(b.docs)
                      /\ IdsOf(tags, b.userId) = {}
                      /\ a.falsy = 0 )
                    => /\ a.ret = "true"
                       /\ a.now # Null
                       /\ IdsOf(tags', b.userId) = {d._id : d \in b.docs}
                       /\ \A d \in b.docs :
                             /\ \A f \in RestoredFields : tags'[d._id][f] = d[f]
                             /\ tags'[d._id].deleted = FALSE
                             /\ tags'[d._id].updateTs = a.now
                       /\ \A i \in DOMAIN tags : tags'[i] = tags[i]
      ]_vars

\* C20 witness: the backup of a user, one document with no updateTs, was
\* restored after deleteHardTags: addTagsFromJson returned true, the
\* document is the only one of the user and carries updateTs the time of
\* the import, and another _id that deleteHardTags removed (a tombstone,
\* left out of the backup) names no document.
C20_Witness ==
    \E b \in calls, c \in calls :
        /\ b.op = "getAllTagsForBackup" /\ b.ret = "true"
        /\ c.op = "addTagsFromJson" /\ c.ret = "true" /\ c.dev = b.dev
        /\ {c.json[j] : j \in DOMAIN c.json} = b.docs
        /\ Cardinality(b.docs) = 1
        /\ \A d \in b.docs :
              /\ d.updateTs = Null
              /\ d._id \in removed
              /\ d._id \in DOMAIN tags
              /\ tags[d._id].userId = b.userId
              /\ tags[d._id].updateTs = c.now
        /\ IdsOf(tags, b.userId) = {d._id : d \in b.docs}
        /\ \E i \in removed : i \notin DOMAIN tags

====
